---- MODULE Spec2Model ----
(***************************************************************************)
(* Model of app/invoice_rag.py: the chunker, the indexing pipeline, the    *)
(* retrieval pipeline and the Streamlit handlers that drive them.          *)
(*                                                                         *)
(* Strings are sequences of one-character strings, so that slicing,        *)
(* stripping, joining and id formatting are computed, not assumed.         *)
(***************************************************************************)
EXTENDS Integers, Sequences, FiniteSets, TLC

VARIABLES
    \* chunk_text(text, chunk_size, overlap): arguments and locals
    text, chunk_size, overlap, start, chunks, cpc,
    \* the Chroma collection: id -> [document, embedding, metadata]
    store,
    \* st.session_state.messages and st.session_state.indexed_files
    messages, indexed_files,
    \* the "Upload & Index" handler: position, the uploader's files, the loop
    \* index and the handler's counters
    pc, uploaded_files, fi, total_chunks, indexed_count,
    \* history: the file names passed to index_pdf by the running batch
    index_calls,
    \* history: what the last handler step did (calls made, value returned)
    last,
    \* history: for every filename index_pdf has returned for since the
    \* collection was last empty, the file contents of the latest such call
    indexed_version

cvars == <<text, chunk_size, overlap, start, chunks, cpc>>

avars == <<store, messages, indexed_files, pc, uploaded_files, fi,
           total_chunks, indexed_count, index_calls, last, indexed_version>>

vars == <<text, chunk_size, overlap, start, chunks, cpc,
          store, messages, indexed_files, pc, uploaded_files, fi,
          total_chunks, indexed_count, index_calls, last, indexed_version>>

----------------------------------------------------------------------------
(* Bounds of the chunker specification                                     *)

MaxLen == 5
MaxChunk == 4

Min(a, b) == IF a < b THEN a ELSE b
Max(a, b) == IF a > b THEN a ELSE b

Alphabet == {"x", "y"}

Texts == UNION {[1..n -> Alphabet] : n \in 0..MaxLen}

----------------------------------------------------------------------------
(* chunk_text                                                              *)

\* Python's s[a:b] for 0 <= a: the slice is clipped to the end of s.
SliceSkipFirst(s, a, b) == SubSeq(s, a + 2, Min(b, Len(s)))
SliceShort(s, a, b) == SubSeq(s, a + 1, Min(b - 1, Len(s)))
Slice(s, a, b) == SubSeq(s, a + 1, Min(b, Len(s)))

\* end = start + chunk_size
ChunkEnd(st, size) == st + size

\* start = end - overlap
NextStartOneBack(end, ov) == end - ov - 1
NextStartNoOverlap(end, ov) == end
NextStart(end, ov) == end - ov

\* The while loop of chunk_text, run from (st, acc) to its return value.
RECURSIVE ChunkLoop(_, _, _, _, _)
ChunkLoop(t, size, ov, st, acc) ==
    IF st < Len(t)
    THEN ChunkLoop(t, size, ov, NextStart(ChunkEnd(st, size), ov),
                   Append(acc, Slice(t, st, ChunkEnd(st, size))))
    ELSE acc

ChunkText(t, size, ov) == ChunkLoop(t, size, ov, 0, <<>>)

\* The arguments a call is made with: any text, 0 <= overlap < chunk_size.
ChunkInit ==
    /\ text \in Texts
    /\ chunk_size \in 1..MaxChunk
    /\ overlap \in 0..(chunk_size - 1)
    /\ start = 0
    /\ chunks = <<>>
    /\ cpc = "loop"

\* One iteration of the while loop.
ChunkIter ==
    /\ cpc = "loop"
    /\ start < Len(text)
    /\ chunks' = Append(chunks, Slice(text, start, ChunkEnd(start, chunk_size)))
    /\ start' = NextStart(ChunkEnd(start, chunk_size), overlap)
    /\ UNCHANGED <<text, chunk_size, overlap, cpc>>
    /\ UNCHANGED avars

\* The loop condition fails: return chunks.
ChunkReturn ==
    /\ cpc = "loop"
    /\ ~(start < Len(text))
    /\ cpc' = "done"
    /\ UNCHANGED <<text, chunk_size, overlap, start, chunks>>
    /\ UNCHANGED avars

ChunkNext == ChunkIter \/ ChunkReturn


----------------------------------------------------------------------------
(* Strings                                                                 *)

Rep(c, n) == [i \in 1..n |-> c]

DigitChars == <<"0", "1", "2", "3", "4", "5", "6", "7", "8", "9">>

\* str(n) for n >= 0
RECURSIVE Str(_)
Str(n) ==
    IF n < 10 THEN <<DigitChars[n + 1]>>
    ELSE Append(Str(n \div 10), DigitChars[(n % 10) + 1])

\* sep.join(parts)
RECURSIVE JoinNoSeparator(_, _)
JoinNoSeparator(parts, sep) ==
    IF parts = <<>> THEN <<>>
    ELSE parts[1] \o JoinNoSeparator(Tail(parts), sep)

RECURSIVE Join(_, _)
Join(parts, sep) ==
    IF parts = <<>> THEN <<>>
    ELSE IF Len(parts) = 1 THEN parts[1]
    ELSE parts[1] \o sep \o Join(Tail(parts), sep)

IsSpace(c) == c \in {" ", "\n", "\t", "\r"}

\* bool(chunk.strip()): stripping leaves something iff some character is not
\* whitespace.
StripIsTruthy(s) == \E i \in 1..Len(s) : ~IsSpace(s[i])

\* The greatest index of c in s, 0 when there is none (s.rfind(c) + 1).
LastIndexOf(s, c) ==
    LET at == {i \in 1..Len(s) : s[i] = c}
    IN IF at = {} THEN 0 ELSE CHOOSE i \in at : \A j \in at : j <= i

\* Path(filename).stem: the final path component without its last suffix; a
\* leading or a trailing dot is no suffix.
PathStem(filename) ==
    LET name == SubSeq(filename, LastIndexOf(filename, "/") + 1, Len(filename))
        dot == LastIndexOf(name, ".")
    IN IF 1 < dot /\ dot < Len(name) THEN SubSeq(name, 1, dot - 1) ELSE name

\* f"{stem}_{i}"
ChunkId(stem, i) == stem \o <<"_">> \o Str(i)

NoDocumentsMsg ==
    <<"N", "o", " ", "d", "o", "c", "u", "m", "e", "n", "t", "s", " ", "h",
      "a", "v", "e", " ", "b", "e", "e", "n", " ", "i", "n", "d", "e", "x",
      "e", "d", " ", "y", "e", "t", ".", " ", "P", "l", "e", "a", "s", "e",
      " ", "u", "p", "l", "o", "a", "d", " ", "s", "o", "m", "e", " ", "i",
      "n", "v", "o", "i", "c", "e", "s", " ", "f", "i", "r", "s", "t", ".">>

NoContextMsg ==
    <<"N", "o", " ", "r", "e", "l", "e", "v", "a", "n", "t", " ", "c", "o",
      "n", "t", "e", "x", "t", " ", "f", "o", "u", "n", "d", ".">>

----------------------------------------------------------------------------
(* The inputs: uploaded files, questions, completions                      *)

\* The uploaded byte streams, named by what they hold. PdfReader either
\* rejects the bytes or gives the pages, and extract_text() gives each
\* page's text (empty for a page with no text layer).
PdfBytes == {"not_a_pdf", "scan", "note", "doc2000", "gap"}

PdfReaderAccepts(bytes) == bytes # "not_a_pdf"

PageTexts(bytes) ==
    CASE bytes = "scan"    -> << <<>> >>
      [] bytes = "note"    -> << <<>>, Rep("y", 700) >>
      [] bytes = "doc2000" -> << Rep("x", 991) \o Rep("y", 1000) >>
      [] bytes = "gap"     -> << Rep("x", 671) \o Rep(" ", 800) \o Rep("y", 100) >>
      [] OTHER             -> <<>>

NameA == <<"a", ".", "p", "d", "f">>
NameB == <<"b", ".", "p", "d", "f">>

\* What the uploader can hold: [name, bytes]
Uploads ==
    {[name |-> NameA, bytes |-> b] : b \in PdfBytes \ {"note"}}
        \cup {[name |-> NameB, bytes |-> "note"]}

Questions == {<<"x">>, <<"y", "y", "?">>}

Completions == {<<"o", "k">>}

----------------------------------------------------------------------------
(* load_pdf_text                                                           *)

\* f"[Page {i+1}]\n{text}" for the page at 0-based index i
PageBlock(i, t) == <<"[", "P", "a", "g", "e", " ">> \o Str(i + 1) \o <<"]", "\n">> \o t

\* The pages list: one block per page whose text is truthy, in page order.
RECURSIVE PageBlocks(_, _)
PageBlocks(pages, i) ==
    IF i >= Len(pages) THEN <<>>
    ELSE IF pages[i + 1] # <<>>
         THEN <<PageBlock(i, pages[i + 1])>> \o PageBlocks(pages, i + 1)
         ELSE PageBlocks(pages, i + 1)

LoadPdfText(bytes) == Join(PageBlocks(PageTexts(bytes), 0), <<"\n">>)

----------------------------------------------------------------------------
(* The embedding service and the Chroma collection                         *)

ChunkSizeDefault == 800
OverlapDefault == 120
NResults == 4

\* The embedding service is a black box; it is modelled as a fixed function
\* of the text to a 2-vector (the numbers of "x" and of "y" in it).
Embed(t) ==
    <<Cardinality({i \in 1..Len(t) : t[i] = "x"}),
      Cardinality({i \in 1..Len(t) : t[i] = "y"})>>

\* Chroma's default distance: squared L2.
Distance(u, v) == (u[1] - v[1]) * (u[1] - v[1]) + (u[2] - v[2]) * (u[2] - v[2])

EmptyStore == [id \in {} |-> {}]

\* collection.count()
Count(st) == Cardinality(DOMAIN st)

\* collection.add(documents, metadatas, embeddings, ids). Chroma's add
\* inserts the records whose id is new and ignores, without raising, a
\* record whose id the collection already holds (upsert is the call that
\* overwrites).
CollectionAddPurgingSource(st, ids, documents, embeddings, metadatas) ==
    LET kept == {id \in DOMAIN st :
                    \A k \in 1..Len(ids) :
                        st[id].metadata.source # metadatas[k].source}
    IN [id \in kept \cup {ids[k] : k \in 1..Len(ids)} |->
            IF id \in kept THEN st[id]
            ELSE LET k == CHOOSE k \in 1..Len(ids) : ids[k] = id
                 IN [document |-> documents[k], embedding |-> embeddings[k],
                     metadata |-> metadatas[k]]]
CollectionAdd(st, ids, documents, embeddings, metadatas) ==
    [id \in DOMAIN st \cup {ids[k] : k \in 1..Len(ids)} |->
        IF id \in DOMAIN st THEN st[id]
        ELSE LET k == CHOOSE k \in 1..Len(ids) : ids[k] = id
             IN [document |-> documents[k], embedding |-> embeddings[k],
                 metadata |-> metadatas[k]]]

\* collection.query(query_embeddings=[q], n_results=k)["documents"][0] as the
\* ranked ids: the min(k, count) nearest records by ascending distance.
\* The order among records at the same distance is the index's choice, so
\* every such order is a possible result.
RECURSIVE Rankings(_, _, _)
Rankings(st, q, k) ==
    IF k = 0 \/ DOMAIN st = {} THEN {<<>>}
    ELSE LET ids == DOMAIN st
             nearest == {i \in ids : \A j \in ids :
                            Distance(st[i].embedding, q)
                                <= Distance(st[j].embedding, q)}
         IN UNION {{<<i>> \o r :
                        r \in Rankings([j \in ids \ {i} |-> st[j]], q, k - 1)} :
                   i \in nearest}

----------------------------------------------------------------------------
(* index_pdf                                                               *)

NoAdd == [ids |-> <<>>, documents |-> <<>>, embeddings |-> <<>>,
          metadatas |-> <<>>]

\* The enumerate loop: the 0-based indices i of the chunks whose strip() is
\* truthy, in order.
KeptIndices(cs) ==
    SelectSeq([k \in 1..Len(cs) |-> k - 1],
              LAMBDA i : StripIsTruthy(cs[i + 1]))

\* The number an entry is filed under: enumerate's index i of the chunk
\* among all the chunks, not the entry's position among the kept ones.
EntryIndexByPosition(i, position) == position
EntryIndex(i, position) == i

\* "if not chunks: return 0" and "if not all_chunks: return 0"
NothingToIndexUnchecked(cs, all_chunks) == FALSE
NothingToIndex(cs, all_chunks) == cs = <<>> \/ all_chunks = <<>>

\* The collection index_pdf leaves when embeddings.create raises: add, the
\* only call that writes, comes after it and is not reached (committed is
\* what add would have stored).
StoreOnEmbedRaiseCommitted(st, committed) == committed
StoreOnEmbedRaise(st, committed) == st

\* index_pdf(pdf_file, filename) on the collection st; embed_ok says whether
\* the embedding service answers. The result gives the outcome ("ok" with
\* the returned count, or "raise"), the service and store calls made, in
\* order, the arguments of the add call, and the collection afterwards.
\* (The temporary file is written before the try and unlinked by its
\* finally on every path.)
IndexPdf(st, filename, bytes, embed_ok) ==
    IF ~PdfReaderAccepts(bytes)
    THEN [outcome |-> "raise", ret |-> 0, calls |-> <<>>, added |-> NoAdd,
          store |-> st]
    ELSE
    LET txt == LoadPdfText(bytes)
        cs == ChunkText(txt, ChunkSizeDefault, OverlapDefault)
        stem == PathStem(filename)
        kept == KeptIndices(cs)
        all_chunks == [k \in 1..Len(kept) |-> cs[kept[k] + 1]]
        metadatas == [k \in 1..Len(kept) |->
                        [source |-> filename,
                         chunk |-> EntryIndex(kept[k], k - 1)]]
        ids == [k \in 1..Len(kept) |->
                    ChunkId(stem, EntryIndex(kept[k], k - 1))]
        embeddings == [k \in 1..Len(kept) |-> Embed(all_chunks[k])]
    IN IF NothingToIndex(cs, all_chunks)
       THEN [outcome |-> "ok", ret |-> 0, calls |-> <<>>, added |-> NoAdd,
             store |-> st]
       ELSE IF ~embed_ok
       THEN [outcome |-> "raise", ret |-> 0, calls |-> <<"embed">>,
             added |-> NoAdd,
             store |-> StoreOnEmbedRaise(st,
                          CollectionAdd(st, ids, all_chunks, embeddings,
                                        metadatas))]
       ELSE [outcome |-> "ok", ret |-> Len(all_chunks),
             calls |-> <<"embed", "add">>,
             added |-> [ids |-> ids, documents |-> all_chunks,
                        embeddings |-> embeddings, metadatas |-> metadatas],
             store |-> CollectionAdd(st, ids, all_chunks, embeddings,
                                     metadatas)]

----------------------------------------------------------------------------
(* retrieve_context                                                        *)

\* "if collection.count() == 0"
NoDocumentsNeverTrue(st) == FALSE
NoDocuments(st) == Count(st) = 0

\* retrieve_context(question) on the collection st; embed_ok says whether
\* the embedding service answers and ranking is the query's result.
RetrieveContext(st, question, embed_ok, ranking) ==
    IF NoDocuments(st)
    THEN [outcome |-> "ok", ret |-> NoDocumentsMsg, calls |-> <<>>,
          n_results |-> 0, results |-> <<>>]
    ELSE IF ~embed_ok
    THEN [outcome |-> "raise", ret |-> <<>>, calls |-> <<"embed">>,
          n_results |-> 0, results |-> <<>>]
    ELSE IF ranking = <<>>
    THEN [outcome |-> "ok", ret |-> NoContextMsg,
          calls |-> <<"embed", "query">>, n_results |-> NResults,
          results |-> ranking]
    ELSE [outcome |-> "ok",
          ret |-> Join([k \in 1..Len(ranking) |-> st[ranking[k]].document],
                       <<"\n", "\n">>),
          calls |-> <<"embed", "query">>, n_results |-> NResults,
          results |-> ranking]

----------------------------------------------------------------------------
(* The Streamlit handlers                                                  *)

MaxBatch == 2
MaxIndexed == 3
MaxMessages == 2

\* What a handler step leaves in the history variable.
Did(op, outcome, ret, context, calls, added, n_results, results) ==
    [op |-> op, outcome |-> outcome, ret |-> ret, context |-> context,
     calls |-> calls, added |-> added, n_results |-> n_results,
     results |-> results]

Quiet(op) == Did(op, "ok", 0, <<>>, <<>>, NoAdd, 0, <<>>)

NoVersions == [name \in {} |-> ""]

\* The latest version of every file once index_pdf has returned for name.
Supersede(versions, name, bytes) ==
    [n \in DOMAIN versions \cup {name} |->
        IF n = name THEN bytes ELSE versions[n]]

Batches == UNION {[1..n -> Uploads] : n \in 1..MaxBatch}

\* The script's first run: empty collection, empty session state.
AppInit ==
    /\ store = EmptyStore
    /\ messages = <<>>
    /\ indexed_files = <<>>
    /\ pc = "idle"
    /\ uploaded_files = <<>>
    /\ fi = 0
    /\ total_chunks = 0
    /\ indexed_count = 0
    /\ index_calls = <<>>
    /\ last = Quiet("start")
    /\ indexed_version = NoVersions

\* "Upload & Index" is clicked with a non-empty selection: the counters are
\* reset and the loop over uploaded_files starts.
UploadClick ==
    /\ pc = "idle"
    /\ \E batch \in Batches :
        /\ Len(indexed_files) + Len(batch) <= MaxIndexed
        /\ uploaded_files' = batch
    /\ pc' = "upload"
    /\ fi' = 0
    /\ total_chunks' = 0
    /\ indexed_count' = 0
    /\ index_calls' = <<>>
    /\ last' = Quiet("upload_click")
    /\ UNCHANGED <<store, messages, indexed_files, indexed_version>>
    /\ UNCHANGED cvars

\* The loop index after the file at index i of n: the except clause handles
\* the exception inside the loop body, so the loop goes on to the next file
\* whatever index_pdf did.
NextFileAbortOnRaise(outcome, i, n) == IF outcome = "raise" THEN n ELSE i + 1
NextFile(outcome, i, n) == i + 1

\* One iteration of the for loop: index_pdf(file, file.name) inside the
\* try; the counters and indexed_files change only when it returns.
UploadIter ==
    /\ pc = "upload"
    /\ fi < Len(uploaded_files)
    /\ \E embed_ok \in BOOLEAN :
        LET file == uploaded_files[fi + 1]
            r == IndexPdf(store, file.name, file.bytes, embed_ok)
        IN /\ index_calls' = Append(index_calls, file.name)
           /\ store' = r.store
           /\ last' = Did("index_pdf", r.outcome, r.ret, <<>>, r.calls,
                          r.added, 0, <<>>)
           /\ IF r.outcome = "ok"
              THEN /\ total_chunks' = total_chunks + r.ret
                   /\ indexed_count' = indexed_count + 1
                   /\ indexed_files' = Append(indexed_files, file.name)
                   /\ indexed_version' =
                        Supersede(indexed_version, file.name, file.bytes)
              ELSE UNCHANGED <<total_chunks, indexed_count, indexed_files,
                               indexed_version>>
           /\ fi' = NextFile(r.outcome, fi, Len(uploaded_files))
    /\ UNCHANGED <<messages, pc, uploaded_files>>
    /\ UNCHANGED cvars

\* The loop is over: the summary is shown and the script run ends.
UploadDone ==
    /\ pc = "upload"
    /\ fi >= Len(uploaded_files)
    /\ pc' = "idle"
    /\ uploaded_files' = <<>>
    /\ fi' = 0
    /\ total_chunks' = 0
    /\ indexed_count' = 0
    /\ index_calls' = <<>>
    /\ last' = Quiet("upload_done")
    /\ UNCHANGED <<store, messages, indexed_files, indexed_version>>
    /\ UNCHANGED cvars

\* "Clear DB": clear_collection() deletes and recreates the collection, then
\* indexed_files is reset.
ClearDB ==
    /\ pc = "idle"
    /\ store' = EmptyStore
    /\ indexed_files' = <<>>
    /\ last' = Quiet("clear")
    /\ indexed_version' = NoVersions
    /\ UNCHANGED <<messages, pc, uploaded_files, fi, total_chunks,
                   indexed_count, index_calls>>
    /\ UNCHANGED cvars

\* "New Chat"
NewChat ==
    /\ pc = "idle"
    /\ messages' = <<>>
    /\ last' = Quiet("new_chat")
    /\ UNCHANGED <<store, indexed_files, pc, uploaded_files, fi,
                   total_chunks, indexed_count, index_calls,
                   indexed_version>>
    /\ UNCHANGED cvars

UserMessage(prompt) == [role |-> "user", content |-> prompt]
AssistantMessage(response) == [role |-> "assistant", content |-> response]

\* The history once the question has been taken from st.chat_input.
WithQuestionDeferred(msgs, prompt) == msgs
WithQuestion(msgs, prompt) == Append(msgs, UserMessage(prompt))

\* A question is submitted: the user message is appended, the context is
\* retrieved, the completion is requested and the assistant message is
\* appended. An exception of the embedding or of the completion call ends
\* the script run where it is raised.
ChatInput ==
    /\ pc = "idle"
    /\ Len(messages) + 2 <= MaxMessages
    /\ \E prompt \in Questions :
        \E ranking \in Rankings(store, Embed(prompt), NResults) :
        \E embed_ok \in BOOLEAN, completion_ok \in BOOLEAN,
           response \in Completions :
            LET asked == WithQuestion(messages, prompt)
                r == RetrieveContext(store, prompt, embed_ok, ranking)
            IN IF r.outcome = "raise"
               THEN /\ messages' = asked
                    /\ last' = Did("chat", "raise", 0, r.ret, r.calls, NoAdd,
                                   r.n_results, r.results)
               ELSE IF ~completion_ok
               THEN /\ messages' = asked
                    /\ last' = Did("chat", "raise", 0, r.ret,
                                   Append(r.calls, "completion"), NoAdd,
                                   r.n_results, r.results)
               ELSE /\ messages' = Append(asked, AssistantMessage(response))
                    /\ last' = Did("chat", "ok", 0, r.ret,
                                   Append(r.calls, "completion"), NoAdd,
                                   r.n_results, r.results)
    /\ UNCHANGED <<store, indexed_files, pc, uploaded_files, fi,
                   total_chunks, indexed_count, index_calls,
                   indexed_version>>
    /\ UNCHANGED cvars

ChunkIdle ==
    /\ text = <<>>
    /\ chunk_size = ChunkSizeDefault
    /\ overlap = OverlapDefault
    /\ start = 0
    /\ chunks = <<>>
    /\ cpc = "idle"

Init == AppInit /\ ChunkIdle

Next ==
    \/ UploadClick
    \/ UploadIter
    \/ UploadDone
    \/ ClearDB
    \/ NewChat
    \/ ChatInput

Spec == Init /\ [][Next]_vars

\* chunk_text on its own, called with any arguments within the bounds.
InitChunk == ChunkInit /\ AppInit

SpecChunk == InitChunk /\ [][ChunkNext]_vars

\* chunk_text runs in the thread that called it: as long as the loop or its
\* return can take a step, the interpreter takes it.
SpecChunkFair == InitChunk /\ [][ChunkNext]_vars /\ WF_vars(ChunkNext)

----------------------------------------------------------------------------
(* Claims about index_pdf, checked under Spec                              *)

\* The loop is about to pass the file at index fi to index_pdf.
AboutToIndex == pc = "upload" /\ fi < Len(uploaded_files)

\* The state is the one index_pdf left, and the file it was given is
\* uploaded_files[fi].
JustIndexed == pc = "upload" /\ fi >= 1 /\ last.op = "index_pdf"

\* The text has nothing but whitespace: it is empty, or every window of it
\* is blank once stripped.
InkFree(t) == \A i \in 1..Len(t) : t[i] \in {" ", "\n", "\t", "\r"}

\* The window of the text t that starts at 0-based offset i * (size - ov).
Window(t, i, size, ov) ==
    SubSeq(t, i * (size - ov) + 1, Min(i * (size - ov) + size, Len(t)))

\* The 0-based indices of the windows of t that hold a non-blank character.
InkedWindows(t, size, ov) ==
    {i \in 0..(Len(t) \div (size - ov)) :
        /\ i * (size - ov) < Len(t)
        /\ ~InkFree(Window(t, i, size, ov))}

\* "<name without .pdf>_<i>" for a one-digit i
ExpectedId(name, i) ==
    SubSeq(name, 1, Len(name) - 4) \o <<"_", DigitChars[i + 1]>>

\* C4: when extraction yields no text, or every chunk is blank after
\* stripping, index_pdf returns 0, calls neither the embedding service nor
\* the store's add, and leaves the store as it was.
C4_NothingIndexed ==
    [][(/\ AboutToIndex
        /\ PdfReaderAccepts(uploaded_files[fi + 1].bytes)
        /\ InkFree(LoadPdfText(uploaded_files[fi + 1].bytes)))
       => /\ last'.op = "index_pdf"
          /\ last'.outcome = "ok"
          /\ last'.ret = 0
          /\ last'.calls = <<>>
          /\ last'.added = NoAdd
          /\ store' = store
          /\ Cardinality(DOMAIN store') = Cardinality(DOMAIN store)]_vars

C4_Witness ==
    /\ JustIndexed
    /\ uploaded_files[fi].bytes = "scan"
    /\ LoadPdfText("scan") = <<>>
    /\ last.outcome = "ok" /\ last.ret = 0 /\ last.calls = <<>>
    /\ Cardinality(DOMAIN store) > 0

\* C5: index_pdf submits one store entry per non-blank chunk, with id
\* "{stem}_{i}" and metadata chunk i for the chunk's index i among all the
\* chunks, blank ones included, and returns the number of entries; a
\* 2000-character text gives the ids stem_0, stem_1, stem_2.
C5_EntriesByOriginalIndex ==
    (JustIndexed /\ last.outcome = "ok") =>
        LET file == uploaded_files[fi]
            txt == LoadPdfText(file.bytes)
            inked == InkedWindows(txt, 800, 120)
            a == last.added
        IN /\ last.ret = Cardinality(inked)
           /\ Len(a.ids) = last.ret
           /\ Len(a.documents) = last.ret
           /\ Len(a.metadatas) = last.ret
           /\ Len(a.embeddings) = last.ret
           /\ {a.metadatas[k].chunk : k \in 1..Len(a.ids)} = inked
           /\ \A k \in 1..Len(a.ids) :
                /\ a.ids[k] = ExpectedId(file.name, a.metadatas[k].chunk)
                /\ a.metadatas[k].source = file.name
                /\ a.documents[k] = Window(txt, a.metadatas[k].chunk, 800, 120)
                /\ \A j \in 1..(k - 1) :
                        a.metadatas[j].chunk < a.metadatas[k].chunk
           /\ file.bytes = "doc2000" =>
                /\ Len(txt) = 2000
                /\ last.ret = 3
                /\ a.ids = << <<"a", "_", "0">>, <<"a", "_", "1">>,
                              <<"a", "_", "2">> >>

\* A blank chunk in the middle: the chunks 0 and 2 are kept under their own
\* indices.
C5_Witness ==
    /\ JustIndexed
    /\ last.outcome = "ok"
    /\ uploaded_files[fi].bytes = "gap"
    /\ last.ret = 2
    /\ last.added.ids = << <<"a", "_", "0">>, <<"a", "_", "2">> >>
    /\ last.added.metadatas[2].chunk = 2

\* C6 as stated: re-indexing the same file under the same filename does not
\* raise count(), and every id of the second call then holds the document,
\* embedding and metadata the second call supplied.
C6_Original ==
    [][(/\ AboutToIndex
        /\ JustIndexed
        /\ last.outcome = "ok"
        /\ uploaded_files[fi + 1] = uploaded_files[fi]
        /\ last'.outcome = "ok")
       => /\ Cardinality(DOMAIN store') <= Cardinality(DOMAIN store)
          /\ \A k \in 1..Len(last'.added.ids) :
                /\ last'.added.ids[k] \in DOMAIN store'
                /\ store'[last'.added.ids[k]] =
                     [document |-> last'.added.documents[k],
                      embedding |-> last'.added.embeddings[k],
                      metadata |-> last'.added.metadatas[k]]]_vars

\* C11: index_pdf has no partial commit. It changes the store only through
\* one add call, made after extraction, chunking, filtering and the one
\* embedding call have succeeded; when extraction or embedding raises, the
\* exception reaches the caller and the store is as it was.
C11_NoPartialCommit ==
    [][AboutToIndex =>
        LET file == uploaded_files[fi + 1]
            a == last'.added
        IN /\ last'.op = "index_pdf"
           /\ last'.calls \in {<<>>, <<"embed">>, <<"embed", "add">>}
           /\ ~PdfReaderAccepts(file.bytes) =>
                /\ last'.outcome = "raise"
                /\ last'.calls = <<>>
           /\ last'.outcome = "raise" =>
                /\ store' = store
                /\ a = NoAdd
                /\ last'.calls \in {<<>>, <<"embed">>}
                /\ indexed_files' = indexed_files
           /\ store' # store =>
                /\ last'.outcome = "ok"
                /\ last'.calls = <<"embed", "add">>
                /\ Len(a.ids) >= 1
                /\ store' = CollectionAdd(store, a.ids, a.documents,
                                          a.embeddings, a.metadatas)
                /\ DOMAIN store' = DOMAIN store \cup
                                        {a.ids[k] : k \in 1..Len(a.ids)}]_vars

\* The embedding call raised for a file with three chunks while the store
\* held entries of an earlier file.
C11_Witness ==
    /\ JustIndexed
    /\ last.outcome = "raise"
    /\ last.calls = <<"embed">>
    /\ uploaded_files[fi].bytes = "doc2000"
    /\ uploaded_files[fi].name = NameA
    /\ DOMAIN store # {}
    /\ \A id \in DOMAIN store : store[id].metadata.source = NameB

\* The 0-based offset in the joined context of the k-th retrieved text.
RECURSIVE ContextOffset(_, _)
ContextOffset(docs, k) ==
    IF k = 1 THEN 0 ELSE ContextOffset(docs, k - 1) + Len(docs[k - 1]) + 2

\* The ids of the entries index_pdf makes for a file: one per window of
\* its text that holds a non-blank character.
VersionIds(name, bytes) ==
    IF PdfReaderAccepts(bytes)
    THEN {ExpectedId(name, i) :
            i \in InkedWindows(LoadPdfText(bytes), 800, 120)}
    ELSE {}

\* The stored ids that the latest version of their source does not produce.
StaleIds ==
    {id \in DOMAIN store :
        LET src == store[id].metadata.source
        IN /\ src \in DOMAIN indexed_version
           /\ id \notin VersionIds(src, indexed_version[src])}

\* C13: re-indexing, under the same filename, a version with fewer chunks
\* than the one indexed before leaves the old version's entries whose id
\* the new version does not produce in the store as they were; count() does
\* not go down (it stays as it was when the new ids are all old ones), and
\* a later retrieve_context returns the stale texts like any other entry
\* (all of them when the store holds at most four entries).
C13_StaleEntriesKept ==
    /\ [][(/\ AboutToIndex
           /\ last'.outcome = "ok"
           /\ uploaded_files[fi + 1].name \in DOMAIN indexed_version
           /\ Cardinality(VersionIds(uploaded_files[fi + 1].name,
                                     uploaded_files[fi + 1].bytes))
                < Cardinality(VersionIds(uploaded_files[fi + 1].name,
                        indexed_version[uploaded_files[fi + 1].name])))
          => LET file == uploaded_files[fi + 1]
                 old == VersionIds(file.name, indexed_version[file.name])
                 new == VersionIds(file.name, file.bytes)
             IN /\ \A id \in old \ new :
                        /\ id \in DOMAIN store
                        /\ id \in DOMAIN store'
                        /\ store'[id] = store[id]
                /\ indexed_version'[file.name] = file.bytes
                /\ Cardinality(DOMAIN store') >= Cardinality(old)
                /\ new \subseteq old =>
                        Cardinality(DOMAIN store') = Cardinality(DOMAIN store)
                ]_vars
    /\ []((/\ last.op = "chat"
           /\ Len(last.calls) >= 2
           /\ last.calls[2] = "query"
           /\ Cardinality(DOMAIN store) <= 4)
          => \A id \in StaleIds :
                \E k \in 1..Len(last.results) :
                    LET docs == [j \in 1..Len(last.results) |->
                                    store[last.results[j]].document]
                    IN /\ last.results[k] = id
                       /\ SubSeq(last.context, ContextOffset(docs, k) + 1,
                                 ContextOffset(docs, k) + Len(docs[k]))
                            = store[id].document)

\* a.pdf was indexed with three chunks and then again with a version that
\* has no chunk 1: a_1 is still stored and a question got its text back.
C13_Witness ==
    /\ last.op = "chat"
    /\ last.outcome = "ok"
    /\ NameA \in DOMAIN indexed_version
    /\ indexed_version[NameA] = "gap"
    /\ Cardinality(DOMAIN store) = 3
    /\ <<"a", "_", "1">> \in StaleIds
    /\ store[<<"a", "_", "1">>].document
            = Window(LoadPdfText("doc2000"), 1, 800, 120)
    /\ \E k \in 1..Len(last.results) : last.results[k] = <<"a", "_", "1">>

----------------------------------------------------------------------------
(* Claims about retrieve_context and the chat handler, checked under Spec  *)

\* The step is the chat handler's (inside [][...]_vars, so a step that
\* changes something): no other handler leaves last.op = "chat".
ChatStep == last'.op = "chat"

\* The question of the last chat step: the last user message.
LastQuestion ==
    IF messages[Len(messages)].role = "user"
    THEN messages[Len(messages)].content
    ELSE messages[Len(messages) - 1].content

\* C7: with an empty store, fresh or emptied by clear_collection, count()
\* is 0 and retrieve_context returns the "no documents" sentinel for every
\* question, without raising and without an embedding call or a query.
C7_EmptyStoreSentinel ==
    [][/\ last'.op = "clear" => Cardinality(DOMAIN store') = 0
       /\ (ChatStep /\ DOMAIN store = {}) =>
            /\ Cardinality(DOMAIN store') = 0
            /\ last'.context = NoDocumentsMsg
            /\ \A k \in 1..Len(last'.calls) : last'.calls[k] = "completion"
            /\ last'.n_results = 0]_vars

C7_Witness ==
    /\ last.op = "chat"
    /\ DOMAIN store = {}
    /\ last.context = NoDocumentsMsg
    /\ last.outcome = "ok"
    /\ LastQuestion = <<"y", "y", "?">>

\* C8: with n >= 1 entries in the store, retrieve_context (unless the
\* embedding call raises) makes one embedding call and one query with
\* k = 4 and returns the texts of the min(n, 4) nearest entries, in ranking
\* order, joined by "\n\n"; with n <= 4 every stored text is returned.
C8_TopFourJoined ==
    (last.op = "chat" /\ DOMAIN store # {} /\ last.calls # <<"embed">>) =>
        LET n == Cardinality(DOMAIN store)
            r == last.results
            q == Embed(LastQuestion)
            d(id) == Distance(store[id].embedding, q)
            docs == [k \in 1..Len(r) |-> store[r[k]].document]
            ctx == last.context
        IN /\ SubSeq(last.calls, 1, 2) = <<"embed", "query">>
           /\ \A k \in 3..Len(last.calls) : last.calls[k] = "completion"
           /\ last.n_results = 4
           /\ Len(r) = Min(n, 4)
           /\ \A k \in 1..Len(r) : r[k] \in DOMAIN store
           /\ \A j, k \in 1..Len(r) : j < k => r[j] # r[k] /\ d(r[j]) <= d(r[k])
           /\ \A id \in DOMAIN store :
                (\A k \in 1..Len(r) : r[k] # id) =>
                    \A k \in 1..Len(r) : d(r[k]) <= d(id)
           /\ Len(ctx) = ContextOffset(docs, Len(r)) + Len(docs[Len(r)])
           /\ \A k \in 1..Len(r) :
                /\ SubSeq(ctx, ContextOffset(docs, k) + 1,
                          ContextOffset(docs, k) + Len(docs[k])) = docs[k]
                /\ k > 1 => SubSeq(ctx, ContextOffset(docs, k) - 1,
                                   ContextOffset(docs, k)) = <<"\n", "\n">>
           /\ n <= 4 => \A id \in DOMAIN store : \E k \in 1..Len(r) : r[k] = id

\* Five entries in the store: the four nearest are returned.
C8_Witness ==
    /\ last.op = "chat"
    /\ last.outcome = "ok"
    /\ Cardinality(DOMAIN store) = 5
    /\ Len(last.results) = 4
    /\ last.calls = <<"embed", "query", "completion">>

\* C9: the files of a batch are passed to index_pdf one after another in
\* upload order; an exception of index_pdf for one file does not stop the
\* loop, and only a file whose call returned is counted and appended to
\* indexed_files.
C9_BatchIsolation ==
    /\ [](pc = "upload" =>
            /\ fi <= Len(uploaded_files)
            /\ index_calls = [k \in 1..fi |-> uploaded_files[k].name])
    /\ [][/\ AboutToIndex =>
                /\ pc' = "upload"
                /\ fi' = fi + 1
                /\ index_calls' = Append(index_calls, uploaded_files[fi + 1].name)
                /\ last'.op = "index_pdf"
                /\ last'.outcome = "ok" =>
                     /\ indexed_count' = indexed_count + 1
                     /\ indexed_files' =
                            Append(indexed_files, uploaded_files[fi + 1].name)
                /\ last'.outcome = "raise" =>
                     /\ indexed_count' = indexed_count
                     /\ indexed_files' = indexed_files
          /\ (pc = "upload" /\ pc' = "idle") =>
                /\ fi = Len(uploaded_files)
                /\ Len(index_calls) = Len(uploaded_files)]_vars

\* The first file failed and the second was indexed all the same.
C9_Witness ==
    /\ pc = "upload"
    /\ Len(uploaded_files) = 2
    /\ fi = 2
    /\ uploaded_files[1].bytes = "not_a_pdf"
    /\ index_calls = <<uploaded_files[1].name, uploaded_files[2].name>>
    /\ last.op = "index_pdf" /\ last.outcome = "ok" /\ last.ret > 0
    /\ indexed_count = 1
    /\ indexed_files = <<uploaded_files[2].name>>

----------------------------------------------------------------------------
(* Claims about chunk_text, checked under SpecChunk                        *)

\* ceil(a / b) for a >= 0, b > 0
Ceil(a, b) == (a + b - 1) \div b

\* The first n characters of every chunk but the last, then the last chunk.
RECURSIVE Reassemble(_, _)
Reassemble(cs, n) ==
    IF cs = <<>> THEN <<>>
    ELSE IF Len(cs) = 1 THEN cs[1]
    ELSE SubSeq(cs[1], 1, Min(n, Len(cs[1]))) \o Reassemble(Tail(cs), n)

\* C1 as stated: a text with 0 < length < chunk_size gives exactly one chunk,
\* the whole text.
C1_Original ==
    (cpc = "done" /\ 0 < Len(text) /\ Len(text) < chunk_size)
        => chunks = <<text>>

\* C1 amended: for a text with 0 < length < chunk_size the first chunk is the
\* whole text, and it is the only chunk exactly when the length is at most
\* chunk_size - overlap (a longer text gives further chunks, each a suffix
\* of the text).
C1_ShortText ==
    (cpc = "done" /\ 0 < Len(text) /\ Len(text) < chunk_size)
        => /\ Len(chunks) >= 1
           /\ chunks[1] = text
           /\ (Len(chunks) = 1) <=> (Len(text) <= chunk_size - overlap)
           /\ \A i \in 1..Len(chunks) :
                chunks[i] = SubSeq(text, (i - 1) * (chunk_size - overlap) + 1,
                                   Len(text))

C1_Witness ==
    /\ cpc = "done"
    /\ Len(text) = 3 /\ chunk_size = 4 /\ overlap = 2
    /\ Len(chunks) = 2
    /\ chunks[1] = text

\* C2 as stated: the number of chunks is ceil(max(L - O, 0) / (C - O)).
C2_Original ==
    cpc = "done" =>
        Len(chunks) = Ceil(Max(Len(text) - overlap, 0), chunk_size - overlap)

\* C2 amended: the number of chunks is ceil(L / (C - O)).
C2_Count ==
    cpc = "done" => Len(chunks) = Ceil(Len(text), chunk_size - overlap)

C2_Witness ==
    /\ cpc = "done"
    /\ Len(text) = 5 /\ chunk_size = 3 /\ overlap = 1
    /\ Len(chunks) = 3

\* C3: the first C - O characters of every chunk but the last, followed by
\* the whole last chunk, are the text.
C3_Reconstruct ==
    cpc = "done" => Reassemble(chunks, chunk_size - overlap) = text

C3_Witness ==
    /\ cpc = "done"
    /\ Len(chunks) >= 3
    /\ overlap >= 1
    /\ \E i \in 1..Len(text) : text[i] # text[1]
    /\ Reassemble(chunks, chunk_size - overlap) = text

\* C12: the chunk_text loop terminates. Every iteration moves the window
\* start forward by chunk_size - overlap >= 1, the loop is left only once
\* start >= len(text), and it is left: the call returns, with a sequence of
\* at most len(text) chunks.
C12_Terminates ==
    /\ <>(cpc = "done")
    /\ [](cpc = "loop" => Len(chunks) * (chunk_size - overlap) = start)
    /\ [](Len(chunks) <= Len(text))
    /\ [][/\ (cpc = "loop" /\ start < Len(text)) =>
                /\ cpc' = "loop"
                /\ start' = start + (chunk_size - overlap)
                /\ start' > start
                /\ Len(chunks') = Len(chunks) + 1
          /\ cpc' = "done" =>
                /\ start >= Len(text)
                /\ chunks' = chunks]_vars

\* A call that took MaxLen iterations, one character forward each, has
\* returned.
C12_Witness ==
    /\ cpc = "done"
    /\ Len(text) = MaxLen
    /\ chunk_size - overlap = 1
    /\ Len(chunks) = MaxLen
    /\ start >= Len(text)

\* C14: the i-th chunk (from 0) is the non-empty piece of the text that
\* starts at offset i * (chunk_size - overlap) and has chunk_size characters,
\* or fewer where the text ends; no chunk is empty, also when the length of
\* the text is a multiple of the stride, and the empty text gives no chunk.
C14_ChunksAreWindows ==
    /\ \A i \in 1..Len(chunks) :
        LET off == (i - 1) * (chunk_size - overlap)
        IN /\ chunks[i] # <<>>
           /\ Len(chunks[i]) >= 1
           /\ Len(chunks[i]) <= chunk_size
           /\ off < Len(text)
           /\ Len(chunks[i]) = Min(chunk_size, Len(text) - off)
           /\ \A j \in 1..Len(chunks[i]) : chunks[i][j] = text[off + j]
    /\ text = <<>> => chunks = <<>>
    /\ cpc = "done" => chunks = ChunkText(text, chunk_size, overlap)

\* The length is a multiple of the stride and the chunks overlap: the last
\* chunk is the text's last stride.
C14_Witness ==
    /\ cpc = "done"
    /\ Len(text) = 4 /\ chunk_size = 3 /\ overlap = 1
    /\ Len(chunks) = 2
    /\ chunks[2] = SubSeq(text, 3, 4)
    /\ text[3] # text[4]

====
